---- MODULE Spec2Model ----
(***************************************************************************)
(* Off-chain loan ledger of avelon_backend (LoanService, the admin         *)
(* liquidation route) over its Prisma tables, with the request handlers    *)
(* interleaving at every await, and the pure arithmetic of the repayment   *)
(* waterfall and of the two collateral-ratio computations, and the two     *)
(* contracts, AvelonLending and CollateralManager, as the calls that move  *)
(* a loan's status, its owed buckets and the escrowed ETH.                 *)
(*                                                                         *)
(* Money is counted in whole units of the smallest amount that occurs;     *)
(* Decimal add/sub/min/compare are exact on such values.                   *)
(***************************************************************************)
EXTENDS Integers, Sequences, FiniteSets, TLC

(* ------------------------------ bounds -------------------------------- *)

\* request handlers that may be in flight at once
NumProcs == 2
\* calls started over a run (also caps the audit log and the statistics)
MaxCalls == 3
\* database writes that fail over a run
MaxDbFailures == 1
\* largest repayment amount a caller submits
MaxAmount == 3
\* largest bucket / collateral / payment drawn for the pure functions
MaxFn == 3
\* most collateral the contract holds for the loan (caps the top-ups)
MaxCollateral == 4
\* largest msg.value sent with a contract call
MaxValue == 3
\* most ETH plain transfers bring the CollateralManager's balance to
MaxBalance == 5

Procs == 1..NumProcs

(* ------------------------- the loan under test ------------------------ *)

\* terms of the one loan the handlers act on (createLoan's row)
Principal == 2
InterestRatePercent == 50
DurationDays == 365
PlanCollateralRatio == 150

\* createLoan: collateralRequired = principal * (plan.collateralRatio / 100)
CollateralRequired == (Principal * PlanCollateralRatio) \div 100

\* activateLoan: principal * (interestRate / 100) * (duration / 365)
InterestAtActivation == (Principal * InterestRatePercent * DurationDays) \div (100 * 365)

LoanId == 1
\* an id no Loan row has (findFirst returns null)
NoLoanId == 0
LoanIds == {LoanId, NoLoanId}

Statuses ==
    {"PENDING_COLLATERAL", "COLLATERAL_DEPOSITED", "ACTIVE", "REPAID",
     "LIQUIDATED", "CANCELLED", "EXPIRED"}

\* the Loan row createLoan writes (schema defaults for the rest)
NewLoan ==
    [status |-> "PENDING_COLLATERAL", principalOwed |-> Principal,
     interestOwed |-> 0, feesOwed |-> 0, collateralDeposited |-> 0]

(* ------------------------------ the chain ----------------------------- *)

\* transaction hashes callers submit
TxHashes == 1..4

\* the value of the transaction a hash names, once it is mined with status 1
ChainTxValue(h) ==
    CASE h = 1 -> 3
      [] h = 2 -> 1
      [] h = 3 -> 0
      [] OTHER -> 2

\* the wallet that sent the transaction a hash names (receipt.from)
ChainTxFrom(h) == IF h = 4 THEN "stranger" ELSE "borrower"

\* what the node answers: the receipt, no receipt yet or a failed status, or
\* the provider throws
NodeAnswers == {"receipt", "noReceipt", "failedStatus", "rpcError"}

\* BlockchainService.verifyTransaction: no receipt or a provider error give
\* {valid: false}; otherwise valid = (receipt.status === 1) and the value
VerifyTransaction(h, answer) ==
    IF answer = "receipt"
    THEN [valid |-> TRUE, value |-> ChainTxValue(h), from |-> ChainTxFrom(h)]
    ELSE [valid |-> FALSE, value |-> 0, from |-> "none"]

(* --------------------------- pure arithmetic -------------------------- *)

Min(a, b) == IF a <= b THEN a ELSE b

TotalOwed(l) == l.principalOwed + l.interestOwed + l.feesOwed

\* the waterfall with `remaining = remaining.sub(feePaid)` left out
AllocateKeepingRemaining(amount, l) ==
    LET feePaid == IF amount > 0 /\ l.feesOwed > 0 THEN Min(amount, l.feesOwed) ELSE 0
        newFees == l.feesOwed - feePaid
        interestPaid == IF amount > 0 /\ l.interestOwed > 0 THEN Min(amount, l.interestOwed) ELSE 0
        newInterest == l.interestOwed - interestPaid
        rem2 == amount - interestPaid
        principalPaid == IF rem2 > 0 /\ l.principalOwed > 0 THEN Min(rem2, l.principalOwed) ELSE 0
        newPrincipal == l.principalOwed - principalPaid
    IN  [feesOwed |-> newFees, interestOwed |-> newInterest, principalOwed |-> newPrincipal]

\* recordRepayment's waterfall on the buckets it read: fees, interest, principal
Allocate(amount, l) ==
    LET feePaid == IF amount > 0 /\ l.feesOwed > 0 THEN Min(amount, l.feesOwed) ELSE 0
        newFees == l.feesOwed - feePaid
        rem1 == amount - feePaid
        interestPaid == IF rem1 > 0 /\ l.interestOwed > 0 THEN Min(rem1, l.interestOwed) ELSE 0
        newInterest == l.interestOwed - interestPaid
        rem2 == rem1 - interestPaid
        principalPaid == IF rem2 > 0 /\ l.principalOwed > 0 THEN Min(rem2, l.principalOwed) ELSE 0
        newPrincipal == l.principalOwed - principalPaid
    IN  [feesOwed |-> newFees, interestOwed |-> newInterest, principalOwed |-> newPrincipal]

\* isFullyRepaid = newTotalOwed.lte(0)
IsFullyRepaid(amount, l) == TotalOwed(Allocate(amount, l)) <= 0

VARIABLES
    loans,        \* Loan table: id -> row
    txLog,        \* LoanTransaction table, in insertion order
    userStats,    \* the borrower's User row: activeLoansCount, completedLoansCount
    auditCount,   \* rows of AuditLog
    pc,           \* each handler's position
    call,         \* each handler's request: op, loanId, txHash, amount
    snap,         \* the buckets a recordRepayment read (its local `loan`)
    result,       \* how the handler's last call ended
    writes,       \* history: the tables the handler's current call has written
    nCalls,       \* calls started
    applied,      \* history: the txHashes whose loan update has committed
    activations,  \* history: per loan, the activateLoan updates that committed
    dbFailures,   \* database writes that failed
    fnIn,         \* inputs of the pure functions
    fnOut,        \* their outputs
    chainLoans,           \* AvelonLending.loans: id -> status and owed buckets
    collateralDeposits,   \* CollateralManager.collateralDeposits
    isCollateralLocked,   \* CollateralManager.isCollateralLocked
    lastTx,               \* history: the last contract call that executed
    balance               \* CollateralManager's ETH balance

vars == <<loans, txLog, userStats, auditCount, pc, call, snap, result, writes,
          nCalls, applied, activations, dbFailures, fnIn, fnOut,
          chainLoans, collateralDeposits, isCollateralLocked, lastTx, balance>>

db == <<loans, txLog, userStats, auditCount>>
fn == <<fnIn, fnOut>>
chain == <<chainLoans, collateralDeposits, isCollateralLocked, lastTx, balance>>

NoCall == [op |-> "none", loanId |-> NoLoanId, txHash |-> 0, amount |-> 0]
NoSnap == [principalOwed |-> 0, interestOwed |-> 0, feesOwed |-> 0]
NoFnIn == [amount |-> 0, fees |-> 0, interest |-> 0, principal |-> 0, collateral |-> 0,
           ratePercent |-> 0, durationDays |-> 0, ratios |-> [min |-> 0, warning |-> 0]]
NoFnOut == [kind |-> "none"]
NoTx == [fn |-> "none", sender |-> "none", value |-> 0]

\* AvelonLending.createLoan's struct for the loan, as far as the calls below
\* read it: status PendingCollateral, principalOwed = principal, interestOwed 0
NewChainLoan ==
    [status |-> "PendingCollateral", principalOwed |-> Principal, interestOwed |-> 0]

\* the contracts after deployment and createLoan: no collateral held
ChainCreated ==
    /\ chainLoans = [l \in {LoanId} |-> NewChainLoan]
    /\ collateralDeposits = [l \in {LoanId} |-> 0]
    /\ isCollateralLocked = [l \in {LoanId} |-> FALSE]
    /\ lastTx = NoTx
    /\ balance = 0

Init ==
    /\ loans = [l \in {LoanId} |-> NewLoan]
    /\ txLog = <<>>
    /\ userStats = [activeLoansCount |-> 0, completedLoansCount |-> 0]
    /\ auditCount = 0
    /\ pc = [p \in Procs |-> "idle"]
    /\ call = [p \in Procs |-> NoCall]
    /\ snap = [p \in Procs |-> NoSnap]
    /\ result = [p \in Procs |-> "none"]
    /\ writes = [p \in Procs |-> {}]
    /\ nCalls = 0
    /\ applied = {}
    /\ activations = [l \in {LoanId} |-> 0]
    /\ dbFailures = 0
    /\ fnIn = NoFnIn
    /\ fnOut = NoFnOut
    /\ ChainCreated

(* ------------------------------ helpers ------------------------------- *)

\* the handler ends: thrown error or returned value
Finish(p, r) ==
    /\ pc' = [pc EXCEPT ![p] = "done"]
    /\ result' = [result EXCEPT ![p] = r]

Goto(p, label) ==
    /\ pc' = [pc EXCEPT ![p] = label]
    /\ UNCHANGED result

Wrote(p, table) == writes' = [writes EXCEPT ![p] = @ \cup {table}]

\* a Prisma write that throws (connection lost, timeout): nothing is written,
\* the error is not an AppError
DbFails(p) ==
    /\ dbFailures < MaxDbFailures
    /\ dbFailures' = dbFailures + 1
    /\ Finish(p, "DbError")
    /\ UNCHANGED <<db, call, snap, writes, nCalls, applied, activations, fn, chain>>

TxHashRecorded(h) == \E k \in 1..Len(txLog) : txLog[k].txHash = h

(* ------------------------------ requests ------------------------------ *)

\* a request arrives at POST /loans/:id/collateral or /add-collateral,
\* /loans/:id/repay, DELETE /loans/:id or POST /admin/loans/:id/liquidate
Start(p) ==
    /\ pc[p] = "idle"
    /\ nCalls < MaxCalls
    /\ \E op \in {"deposit", "repay", "cancel", "liquidate"}, id \in LoanIds :
         \E h \in (IF op \in {"deposit", "repay"} /\ id = LoanId THEN TxHashes ELSE {0}),
            a \in (IF op = "repay" /\ id = LoanId THEN 0..MaxAmount ELSE {0}) :
            /\ call' = [call EXCEPT ![p] = [op |-> op, loanId |-> id, txHash |-> h, amount |-> a]]
            /\ pc' = [pc EXCEPT ![p] = "find"]
    /\ nCalls' = nCalls + 1
    /\ result' = [result EXCEPT ![p] = "none"]
    /\ UNCHANGED <<db, snap, writes, applied, activations, dbFailures, fn, chain>>

\* the response is sent; the handler's locals are gone
Return(p) ==
    /\ pc[p] = "done"
    /\ pc' = [pc EXCEPT ![p] = "idle"]
    /\ call' = [call EXCEPT ![p] = NoCall]
    /\ snap' = [snap EXCEPT ![p] = NoSnap]
    /\ result' = [result EXCEPT ![p] = "none"]
    /\ writes' = [writes EXCEPT ![p] = {}]
    /\ UNCHANGED <<db, nCalls, applied, activations, dbFailures, fn, chain>>

(* ---------------------- recordCollateralDeposit ----------------------- *)

\* findFirst, then the status check
DepositFind(p) ==
    /\ pc[p] = "find" /\ call[p].op = "deposit"
    /\ IF call[p].loanId \notin DOMAIN loans
       THEN Finish(p, "NotFoundError")
       ELSE IF loans[call[p].loanId].status # "PENDING_COLLATERAL"
            THEN Finish(p, "ValidationError")
            ELSE Goto(p, "d_verify")
    /\ UNCHANGED <<db, call, snap, writes, nCalls, applied, activations, dbFailures, fn, chain>>

\* verifyTransaction, then the valid check
DepositVerify(p) ==
    /\ pc[p] = "d_verify"
    /\ \E answer \in NodeAnswers :
         IF ~VerifyTransaction(call[p].txHash, answer).valid
         THEN Finish(p, "ValidationError")
         ELSE Goto(p, "d_insertTx")
    /\ UNCHANGED <<db, call, snap, writes, nCalls, applied, activations, dbFailures, fn, chain>>

\* the amount credited: new Decimal(txInfo.value || '0') of the verified tx
DepositValue(h) == VerifyTransaction(h, "receipt").value

\* loanTransaction.create; the unique index on txHash refuses a duplicate
DepositInsertTx(p) ==
    /\ pc[p] = "d_insertTx"
    /\ \/ /\ TxHashRecorded(call[p].txHash)
          /\ Finish(p, "PrismaP2002")
          /\ UNCHANGED <<db, writes, dbFailures>>
       \/ /\ ~TxHashRecorded(call[p].txHash)
          /\ txLog' = Append(txLog, [loanId |-> call[p].loanId, type |-> "COLLATERAL_DEPOSIT",
                                     amount |-> DepositValue(call[p].txHash),
                                     txHash |-> call[p].txHash])
          /\ Wrote(p, "LoanTransaction")
          /\ Goto(p, "d_updateLoan")
          /\ UNCHANGED <<loans, userStats, auditCount, dbFailures>>
    /\ UNCHANGED <<call, snap, nCalls, applied, activations, fn, chain>>

\* the row loan.update writes: collateralDeposited incremented in the database,
\* status set whatever it was
DepositedRow(row, amount) ==
    [row EXCEPT !.collateralDeposited = @ + amount, !.status = "COLLATERAL_DEPOSITED"]

\* a deposit that credits whatever is deposited activates the loan
MeetsAnyDeposit(row) == row.collateralDeposited > 0

\* updatedLoan.collateralDeposited.gte(updatedLoan.collateralRequired)
MeetsRequirement(row) == row.collateralDeposited >= CollateralRequired

\* loan.update, then the check of the returned row against collateralRequired
DepositUpdateLoan(p) ==
    /\ pc[p] = "d_updateLoan"
    /\ LET id == call[p].loanId
           updated == DepositedRow(loans[id], DepositValue(call[p].txHash))
       IN  /\ loans' = [loans EXCEPT ![id] = updated]
           /\ IF MeetsRequirement(updated)
              THEN Goto(p, "a_find")
              ELSE Goto(p, "d_audit")
    /\ Wrote(p, "Loan")
    /\ applied' = applied \cup {call[p].txHash}
    /\ UNCHANGED <<txLog, userStats, auditCount, call, snap, nCalls, activations, dbFailures, fn, chain>>

\* activateLoan: findUnique
ActivateFind(p) ==
    /\ pc[p] = "a_find"
    /\ Goto(p, "a_updateLoan")
    /\ UNCHANGED <<db, call, snap, writes, nCalls, applied, activations, dbFailures, fn, chain>>

ActivatedRow(row) ==
    [row EXCEPT !.status = "ACTIVE", !.interestOwed = InterestAtActivation]

\* activateLoan: loan.update
ActivateUpdateLoan(p) ==
    /\ pc[p] = "a_updateLoan"
    /\ loans' = [loans EXCEPT ![call[p].loanId] = ActivatedRow(@)]
    /\ activations' = [activations EXCEPT ![call[p].loanId] = @ + 1]
    /\ Wrote(p, "Loan")
    /\ Goto(p, "a_updateUser")
    /\ UNCHANGED <<txLog, userStats, auditCount, call, snap, nCalls, applied, dbFailures, fn, chain>>

\* activateLoan: user.update
ActivateUpdateUser(p) ==
    /\ pc[p] = "a_updateUser"
    /\ userStats' = [userStats EXCEPT !.activeLoansCount = @ + 1]
    /\ Wrote(p, "User")
    /\ Goto(p, "d_audit")
    /\ UNCHANGED <<loans, txLog, auditCount, call, snap, nCalls, applied, activations, dbFailures, fn, chain>>

\* auditLog.create, then return
DepositAudit(p) ==
    /\ pc[p] = "d_audit"
    /\ auditCount' = auditCount + 1
    /\ Wrote(p, "AuditLog")
    /\ Finish(p, "ok")
    /\ UNCHANGED <<loans, txLog, userStats, call, snap, nCalls, applied, activations, dbFailures, fn, chain>>

(* --------------------------- recordRepayment -------------------------- *)

\* findFirst, then the status check; the row read is the handler's `loan`
RepayFind(p) ==
    /\ pc[p] = "find" /\ call[p].op = "repay"
    /\ IF call[p].loanId \notin DOMAIN loans
       THEN Finish(p, "NotFoundError") /\ UNCHANGED snap
       ELSE LET row == loans[call[p].loanId]
            IN  IF row.status # "ACTIVE"
                THEN Finish(p, "ValidationError") /\ UNCHANGED snap
                ELSE /\ Goto(p, "r_verify")
                     /\ snap' = [snap EXCEPT ![p] =
                                   [principalOwed |-> row.principalOwed,
                                    interestOwed |-> row.interestOwed,
                                    feesOwed |-> row.feesOwed]]
    /\ UNCHANGED <<db, call, writes, nCalls, applied, activations, dbFailures, fn, chain>>

\* repaymentAmount.gt(totalOwed), on the row read at the start
ExceedsOwed(amount, l) == amount > TotalOwed(l)

\* verifyTransaction, the valid check, then the amount check
RepayVerify(p) ==
    /\ pc[p] = "r_verify"
    /\ \E answer \in NodeAnswers :
         IF ~VerifyTransaction(call[p].txHash, answer).valid
         THEN Finish(p, "ValidationError")
         ELSE IF ExceedsOwed(call[p].amount, snap[p])
              THEN Finish(p, "ValidationError")
              ELSE Goto(p, "r_insertTx")
    /\ UNCHANGED <<db, call, snap, writes, nCalls, applied, activations, dbFailures, fn, chain>>

\* loanTransaction.create; the unique index on txHash refuses a duplicate
RepayInsertTx(p) ==
    /\ pc[p] = "r_insertTx"
    /\ \/ /\ TxHashRecorded(call[p].txHash)
          /\ Finish(p, "PrismaP2002")
          /\ UNCHANGED <<db, writes, dbFailures>>
       \/ /\ ~TxHashRecorded(call[p].txHash)
          /\ txLog' = Append(txLog, [loanId |-> call[p].loanId, type |-> "REPAYMENT",
                                     amount |-> call[p].amount, txHash |-> call[p].txHash])
          /\ Wrote(p, "LoanTransaction")
          /\ Goto(p, "r_updateLoan")
          /\ UNCHANGED <<loans, userStats, auditCount, dbFailures>>
    /\ UNCHANGED <<call, snap, nCalls, applied, activations, fn, chain>>

\* the row loan.update writes: the three buckets computed from the row read,
\* and status REPAID when they sum to 0
RepaidRow(row, amount, read) ==
    LET new == Allocate(amount, read)
    IN  [row EXCEPT !.principalOwed = new.principalOwed,
                    !.interestOwed = new.interestOwed,
                    !.feesOwed = new.feesOwed,
                    !.status = IF IsFullyRepaid(amount, read) THEN "REPAID" ELSE @]

\* loan.update
RepayUpdateLoan(p) ==
    /\ pc[p] = "r_updateLoan"
    /\ loans' = [loans EXCEPT ![call[p].loanId] = RepaidRow(@, call[p].amount, snap[p])]
    /\ Wrote(p, "Loan")
    /\ IF IsFullyRepaid(call[p].amount, snap[p])
       THEN Goto(p, "r_updateUser")
       ELSE Goto(p, "r_audit")
    /\ applied' = applied \cup {call[p].txHash}
    /\ UNCHANGED <<txLog, userStats, auditCount, call, snap, nCalls, activations, dbFailures, fn, chain>>

\* user.update, only if fully repaid
RepayUpdateUser(p) ==
    /\ pc[p] = "r_updateUser"
    /\ userStats' = [userStats EXCEPT !.activeLoansCount = @ - 1,
                                      !.completedLoansCount = @ + 1]
    /\ Wrote(p, "User")
    /\ Goto(p, "r_audit")
    /\ UNCHANGED <<loans, txLog, auditCount, call, snap, nCalls, applied, activations, dbFailures, fn, chain>>

\* auditLog.create, then return
RepayAudit(p) ==
    /\ pc[p] = "r_audit"
    /\ auditCount' = auditCount + 1
    /\ Wrote(p, "AuditLog")
    /\ Finish(p, "ok")
    /\ UNCHANGED <<loans, txLog, userStats, call, snap, nCalls, applied, activations, dbFailures, fn, chain>>

(* ------------------------------ cancelLoan ---------------------------- *)

CancelFind(p) ==
    /\ pc[p] = "find" /\ call[p].op = "cancel"
    /\ IF call[p].loanId \notin DOMAIN loans
       THEN Finish(p, "NotFoundError")
       ELSE IF loans[call[p].loanId].status # "PENDING_COLLATERAL"
            THEN Finish(p, "ValidationError")
            ELSE Goto(p, "c_updateLoan")
    /\ UNCHANGED <<db, call, snap, writes, nCalls, applied, activations, dbFailures, fn, chain>>

CancelledRow(row) == [row EXCEPT !.status = "CANCELLED"]

CancelUpdateLoan(p) ==
    /\ pc[p] = "c_updateLoan"
    /\ loans' = [loans EXCEPT ![call[p].loanId] = CancelledRow(@)]
    /\ Wrote(p, "Loan")
    /\ Goto(p, "c_audit")
    /\ UNCHANGED <<txLog, userStats, auditCount, call, snap, nCalls, applied, activations, dbFailures, fn, chain>>

CancelAudit(p) ==
    /\ pc[p] = "c_audit"
    /\ auditCount' = auditCount + 1
    /\ Wrote(p, "AuditLog")
    /\ Finish(p, "ok")
    /\ UNCHANGED <<loans, txLog, userStats, call, snap, nCalls, applied, activations, dbFailures, fn, chain>>

(* ------------------- POST /admin/loans/:id/liquidate ------------------ *)

\* findUnique, then the status check (404 / 400 responses)
LiquidateFind(p) ==
    /\ pc[p] = "find" /\ call[p].op = "liquidate"
    /\ IF call[p].loanId \notin DOMAIN loans
       THEN Finish(p, "NotFound404")
       ELSE IF loans[call[p].loanId].status # "ACTIVE"
            THEN Finish(p, "BadRequest400")
            ELSE Goto(p, "l_updateLoan")
    /\ UNCHANGED <<db, call, snap, writes, nCalls, applied, activations, dbFailures, fn, chain>>

LiquidatedRow(row) == [row EXCEPT !.status = "LIQUIDATED"]

LiquidateUpdateLoan(p) ==
    /\ pc[p] = "l_updateLoan"
    /\ loans' = [loans EXCEPT ![call[p].loanId] = LiquidatedRow(@)]
    /\ Wrote(p, "Loan")
    /\ Finish(p, "ok")
    /\ UNCHANGED <<txLog, userStats, auditCount, call, snap, nCalls, applied, activations, dbFailures, fn, chain>>

(* --------------------------- database failure ------------------------- *)

WriteSteps ==
    {"d_insertTx", "d_updateLoan", "a_updateLoan", "a_updateUser", "d_audit",
     "r_insertTx", "r_updateLoan", "r_updateUser", "r_audit",
     "c_updateLoan", "c_audit", "l_updateLoan"}

\* any of the handlers' Prisma writes throws instead of writing
DbWriteFails(p) ==
    /\ pc[p] \in WriteSteps
    /\ DbFails(p)

(* ---------------------------- specification --------------------------- *)

Next ==
    \E p \in Procs :
        \/ Start(p)
        \/ Return(p)
        \/ DepositFind(p)
        \/ DepositVerify(p)
        \/ DepositInsertTx(p)
        \/ DepositUpdateLoan(p)
        \/ ActivateFind(p)
        \/ ActivateUpdateLoan(p)
        \/ ActivateUpdateUser(p)
        \/ DepositAudit(p)
        \/ RepayFind(p)
        \/ RepayVerify(p)
        \/ RepayInsertTx(p)
        \/ RepayUpdateLoan(p)
        \/ RepayUpdateUser(p)
        \/ RepayAudit(p)
        \/ CancelFind(p)
        \/ CancelUpdateLoan(p)
        \/ CancelAudit(p)
        \/ LiquidateFind(p)
        \/ LiquidateUpdateLoan(p)
        \/ DbWriteFails(p)

Spec == Init /\ [][Next]_vars

(* ------------- the ledger once the first deposit is recorded ---------- *)

\* the database after recordCollateralDeposit of transaction 1 has returned
\* (Spec reaches it: ReachesActiveLedger); the handlers start from there
InitActive ==
    /\ loans = [l \in {LoanId} |-> ActivatedRow(DepositedRow(NewLoan, DepositValue(1)))]
    /\ txLog = <<[loanId |-> LoanId, type |-> "COLLATERAL_DEPOSIT",
                  amount |-> DepositValue(1), txHash |-> 1]>>
    /\ userStats = [activeLoansCount |-> 1, completedLoansCount |-> 0]
    /\ auditCount = 1
    /\ pc = [p \in Procs |-> "idle"]
    /\ call = [p \in Procs |-> NoCall]
    /\ snap = [p \in Procs |-> NoSnap]
    /\ result = [p \in Procs |-> "none"]
    /\ writes = [p \in Procs |-> {}]
    /\ nCalls = 0
    /\ applied = {1}
    /\ activations = [l \in {LoanId} |-> 1]
    /\ dbFailures = 0
    /\ fnIn = NoFnIn
    /\ fnOut = NoFnOut
    /\ ChainCreated

\* the steps a handler can take on a loan that has been activated
NextActive ==
    \E p \in Procs :
        \/ Start(p)
        \/ Return(p)
        \/ DepositFind(p)
        \/ RepayFind(p)
        \/ RepayVerify(p)
        \/ RepayInsertTx(p)
        \/ RepayUpdateLoan(p)
        \/ RepayUpdateUser(p)
        \/ RepayAudit(p)
        \/ CancelFind(p)
        \/ LiquidateFind(p)
        \/ LiquidateUpdateLoan(p)
        \/ DbWriteFails(p)

SpecActive == InitActive /\ [][NextActive]_vars

(* --------------------------- pure functions --------------------------- *)

\* GET /loans/:id: collateralDeposited.div(totalOwed).mul(100).toNumber(), a
\* percentage that is not floored, or null; the quotient is kept as the
\* fraction num/den (Decimal keeps 20 significant digits of it)
OffChainCollateralRatio(collateral, l) ==
    IF collateral > 0 /\ TotalOwed(l) > 0
    THEN [isNull |-> FALSE, num |-> collateral * 100, den |-> TotalOwed(l)]
    ELSE [isNull |-> TRUE, num |-> 0, den |-> 1]

\* CollateralManager.getCollateralRatio over AvelonLending's two buckets
OnChainCollateralRatio(collateral, principalOwed, interestOwed) ==
    IF collateral = 0
    THEN [isMax |-> FALSE, value |-> 0]
    ELSE IF principalOwed + interestOwed = 0
         THEN [isMax |-> TRUE, value |-> 0]
         ELSE [isMax |-> FALSE, value |-> (collateral * 10000) \div (principalOwed + interestOwed)]

\* the significant digits a Decimal keeps (the library's default is 20, for
\* amounts counted in ETH with 18 decimals; here amounts are counted in the
\* smallest money unit and range over 0..MaxFn, so that 4 digits likewise
\* reach below the money precision)
DecimalPrecision == 4

\* CollateralManager.minCollateralRatio, in basis points
minCollateralRatio == 12000

\* CollateralManager.warningCollateralRatio, in basis points
warningCollateralRatio == 13000

\* the thresholds as deployed, and a pair setCollateralRatios accepts
\* (_minRatio >= 10000, _warningRatio > _minRatio)
RatioSettings ==
    {[min |-> minCollateralRatio, warning |-> warningCollateralRatio],
     [min |-> 15000, warning |-> 20000]}

\* plan interest rates (percent per year) and loan durations (days)
RatesPercent == {5, 50}
Durations == {30, 365}

RECURSIVE Pow10(_)
Pow10(n) == IF n = 0 THEN 1 ELSE 10 * Pow10(n - 1)

RECURSIVE NumDigits(_)
NumDigits(c) == IF c < 10 THEN 1 ELSE 1 + NumDigits(c \div 10)

\* a Decimal: coefficient c and exponent e, standing for c / 10^e
Dec(n) == [c |-> n, e |-> 0]

\* Decimal's rounding of a result to its precision, half up
DecRound(x) ==
    IF x.c = 0 THEN Dec(0)
    ELSE IF NumDigits(x.c) <= DecimalPrecision THEN x
    ELSE LET j == NumDigits(x.c) - DecimalPrecision
             r == (x.c + (Pow10(j) \div 2)) \div Pow10(j)
         IN  IF r = Pow10(DecimalPrecision)
             THEN [c |-> r \div 10, e |-> x.e - j - 1]
             ELSE [c |-> r, e |-> x.e - j]

\* Decimal.mul
DecMul(x, y) == DecRound([c |-> x.c * y.c, e |-> x.e + y.e])

\* the digits after the point a quotient c / n needs to fill the precision
RECURSIVE QuotientScale(_, _, _)
QuotientScale(c, n, k) ==
    IF (c * Pow10(k)) \div n >= Pow10(DecimalPrecision - 1)
    THEN k
    ELSE QuotientScale(c, n, k + 1)

\* Decimal.div by a whole number n > 0
DecDiv(x, n) ==
    IF x.c = 0 THEN Dec(0)
    ELSE LET k == QuotientScale(x.c, n, 0)
             q == (x.c * Pow10(k)) \div n
             rem == (x.c * Pow10(k)) % n
         IN  DecRound([c |-> IF 2 * rem >= n THEN q + 1 ELSE q, e |-> x.e + k])

\* LoanService.activateLoan:
\* principal.mul(Decimal(interestRate).div(100)).mul(Decimal(duration).div(365))
OffChainInterest(principal, ratePercent, durationDays) ==
    DecMul(DecMul(Dec(principal), DecDiv(Dec(ratePercent), 100)),
           DecDiv(Dec(durationDays), 365))

\* a Decimal is the whole number n
DecEquals(x, n) == x.c = n * Pow10(x.e)

FnBuckets == [principalOwed |-> fnIn.principal, interestOwed |-> fnIn.interest,
              feesOwed |-> fnIn.fees]

InitFn ==
    /\ loans = [l \in {LoanId} |-> NewLoan]
    /\ txLog = <<>>
    /\ userStats = [activeLoansCount |-> 0, completedLoansCount |-> 0]
    /\ auditCount = 0
    /\ pc = [p \in Procs |-> "idle"]
    /\ call = [p \in Procs |-> NoCall]
    /\ snap = [p \in Procs |-> NoSnap]
    /\ result = [p \in Procs |-> "none"]
    /\ writes = [p \in Procs |-> {}]
    /\ nCalls = 0
    /\ applied = {}
    /\ activations = [l \in {LoanId} |-> 0]
    /\ dbFailures = 0
    /\ fnIn \in [amount : 0..(3 * MaxFn + 1), fees : 0..MaxFn, interest : 0..MaxFn,
                 principal : 0..MaxFn, collateral : 0..(2 * MaxFn - 1),
                 ratePercent : RatesPercent, durationDays : Durations,
                 ratios : RatioSettings]
    /\ fnOut = NoFnOut
    /\ ChainCreated

\* recordRepayment's amount check and waterfall on the drawn buckets
FnAllocate ==
    /\ fnOut.kind # "allocate"
    /\ fnOut' = [kind |-> "allocate",
                 rejected |-> ExceedsOwed(fnIn.amount, FnBuckets),
                 new |-> Allocate(fnIn.amount, FnBuckets)]
    /\ UNCHANGED <<db, pc, call, snap, result, writes, nCalls, applied, activations, dbFailures, fnIn, chain>>

\* both collateral ratios of the drawn loan
FnCollateralRatio ==
    /\ fnOut.kind # "ratio"
    /\ fnOut' = [kind |-> "ratio",
                 offChain |-> OffChainCollateralRatio(fnIn.collateral, FnBuckets),
                 onChain |-> OnChainCollateralRatio(fnIn.collateral, fnIn.principal,
                                                    fnIn.interest)]
    /\ UNCHANGED <<db, pc, call, snap, result, writes, nCalls, applied, activations, dbFailures, fnIn, chain>>

(* ----------------- AvelonLending and CollateralManager ---------------- *)

\* who sends a contract call: the loan's borrower, the contracts' owner (the
\* backend's signer), anyone else
Senders == {"borrower", "owner", "stranger"}

ChainStatuses == {"PendingCollateral", "Active", "Repaid", "Liquidated", "Cancelled"}

\* the loan's interestRate as createLoan receives it, in basis points
InterestRateBps == InterestRatePercent * 100

\* AvelonLending.activateLoan:
\* (principal * interestRate * duration) / (365 days * 10000), duration in
\* seconds; with duration = days * 86400 the factor 86400 cancels exactly
OnChainInterest(principal, rateBps, durationDays) ==
    (principal * rateBps * durationDays) \div (365 * 10000)

\* AvelonLending.activateLoan on a PendingCollateral loan
ActivatedChainLoan(l) ==
    [l EXCEPT !.status = "Active",
              !.interestOwed = OnChainInterest(Principal, InterestRateBps, DurationDays)]

\* AvelonLending.recordRepayment's requires on the amount
OnChainRepayAccepted(amount, principalOwed, interestOwed) ==
    amount > 0 /\ amount <= principalOwed + interestOwed

\* recordRepayment closing the loan on every accepted payment
OnChainRepayClosing(amount, l) ==
    LET new == IF amount <= l.interestOwed
               THEN [l EXCEPT !.interestOwed = @ - amount]
               ELSE [l EXCEPT !.interestOwed = 0,
                              !.principalOwed = @ - (amount - l.interestOwed)]
    IN  [new EXCEPT !.status = "Repaid"]

\* AvelonLending.recordRepayment: interest first, then principal; Repaid when
\* nothing remains
OnChainRepay(amount, l) ==
    LET new == IF amount <= l.interestOwed
               THEN [l EXCEPT !.interestOwed = @ - amount]
               ELSE [l EXCEPT !.interestOwed = 0,
                              !.principalOwed = @ - (amount - l.interestOwed)]
    IN  IF new.principalOwed + new.interestOwed = 0
        THEN [new EXCEPT !.status = "Repaid"]
        ELSE new

\* CollateralManager.liquidate's currentRatio (totalOwed > 0)
LiquidationRatio(collateral, l) ==
    (collateral * 10000) \div (l.principalOwed + l.interestOwed)

\* both recordRepayment's on one payment against the drawn buckets: the
\* off-chain side is the amount check, the waterfall and isFullyRepaid, the
\* on-chain side the requires on the amount and the allocation
FnRepay ==
    /\ fnOut.kind # "repay"
    /\ fnOut' = [kind |-> "repay",
                 offAccepted |-> ~ExceedsOwed(fnIn.amount, FnBuckets),
                 offNew |-> Allocate(fnIn.amount, FnBuckets),
                 offRepaid |-> IsFullyRepaid(fnIn.amount, FnBuckets),
                 onAccepted |-> OnChainRepayAccepted(fnIn.amount, fnIn.principal,
                                                     fnIn.interest),
                 onNew |-> OnChainRepay(fnIn.amount,
                                        [status |-> "Active",
                                         principalOwed |-> fnIn.principal,
                                         interestOwed |-> fnIn.interest])]
    /\ UNCHANGED <<db, pc, call, snap, result, writes, nCalls, applied, activations, dbFailures, fnIn, chain>>

\* both activateLoan's interest for the drawn loan terms
FnInterest ==
    /\ fnOut.kind # "interest"
    /\ fnOut' = [kind |-> "interest",
                 offChain |-> OffChainInterest(fnIn.principal, fnIn.ratePercent,
                                               fnIn.durationDays),
                 onChain |-> OnChainInterest(fnIn.principal, fnIn.ratePercent * 100,
                                             fnIn.durationDays)]
    /\ UNCHANGED <<db, pc, call, snap, result, writes, nCalls, applied, activations, dbFailures, fnIn, chain>>

\* isAtRisk with `warning` true for every ratio below the warning threshold
IsAtRiskWarningBelow(ratio, minRatio, warningRatio) ==
    [warning |-> ~ratio.isMax /\ ratio.value < warningRatio,
     liquidatable |-> ~ratio.isMax /\ ratio.value < minRatio]

\* CollateralManager.isAtRisk on getCollateralRatio's result (type(uint256).max
\* is below no threshold)
IsAtRisk(ratio, minRatio, warningRatio) ==
    [warning |-> /\ ~ratio.isMax
                 /\ ratio.value < warningRatio
                 /\ ratio.value >= minRatio,
     liquidatable |-> ~ratio.isMax /\ ratio.value < minRatio]

\* isAtRisk for the drawn loan under the drawn thresholds
FnIsAtRisk ==
    /\ fnOut.kind # "atRisk"
    /\ LET ratio == OnChainCollateralRatio(fnIn.collateral, fnIn.principal, fnIn.interest)
       IN  fnOut' = [kind |-> "atRisk",
                     ratio |-> ratio,
                     flags |-> IsAtRisk(ratio, fnIn.ratios.min, fnIn.ratios.warning)]
    /\ UNCHANGED <<db, pc, call, snap, result, writes, nCalls, applied, activations, dbFailures, fnIn, chain>>

NextFn == FnAllocate \/ FnCollateralRatio \/ FnRepay \/ FnInterest \/ FnIsAtRisk

SpecFn == InitFn /\ [][NextFn]_vars

\* a contract call passes its requires and executes (a call that reverts
\* leaves the contracts as they were)
Executed(fnName, sender, value) ==
    lastTx' = [fn |-> fnName, sender |-> sender, value |-> value]

OffChainUnchanged ==
    UNCHANGED <<db, pc, call, snap, result, writes, nCalls, applied, activations, dbFailures, fn>>

\* CollateralManager.depositCollateral, with the activateLoan it calls
depositCollateral ==
    \E sender \in Senders, value \in 0..MaxValue :
        LET l == chainLoans[LoanId]
        IN  /\ value > 0
            /\ l.status = "PendingCollateral"
            /\ sender = "borrower"
            /\ value >= CollateralRequired
            /\ collateralDeposits' = [collateralDeposits EXCEPT ![LoanId] = value]
            /\ isCollateralLocked' = [isCollateralLocked EXCEPT ![LoanId] = TRUE]
            /\ chainLoans' = [chainLoans EXCEPT ![LoanId] = ActivatedChainLoan(l)]
            /\ balance' = balance + value
            /\ Executed("depositCollateral", sender, value)
            /\ OffChainUnchanged

\* CollateralManager.addCollateral
addCollateral ==
    \E sender \in Senders, value \in 0..MaxValue :
        /\ value > 0
        /\ isCollateralLocked[LoanId]
        /\ chainLoans[LoanId].status = "Active"
        /\ sender = "borrower"
        /\ collateralDeposits[LoanId] + value <= MaxCollateral
        /\ collateralDeposits' = [collateralDeposits EXCEPT ![LoanId] = @ + value]
        /\ balance' = balance + value
        /\ UNCHANGED <<chainLoans, isCollateralLocked>>
        /\ Executed("addCollateral", sender, value)
        /\ OffChainUnchanged

\* AvelonLending.recordRepayment (onlyOwner)
chainRecordRepayment ==
    \E sender \in Senders, amount \in 0..MaxAmount :
        LET l == chainLoans[LoanId]
        IN  /\ sender = "owner"
            /\ l.status = "Active"
            /\ OnChainRepayAccepted(amount, l.principalOwed, l.interestOwed)
            /\ chainLoans' = [chainLoans EXCEPT ![LoanId] = OnChainRepay(amount, l)]
            /\ UNCHANGED <<collateralDeposits, isCollateralLocked, balance>>
            /\ Executed("recordRepayment", sender, amount)
            /\ OffChainUnchanged

\* CollateralManager.liquidate (onlyOwner), with the liquidateLoan it calls
liquidate ==
    \E sender \in Senders :
        LET l == chainLoans[LoanId]
        IN  /\ sender = "owner"
            /\ isCollateralLocked[LoanId]
            /\ l.status = "Active"
            /\ l.principalOwed + l.interestOwed > 0
            /\ LiquidationRatio(collateralDeposits[LoanId], l) < minCollateralRatio
            /\ collateralDeposits' = [collateralDeposits EXCEPT ![LoanId] = 0]
            /\ isCollateralLocked' = [isCollateralLocked EXCEPT ![LoanId] = FALSE]
            /\ chainLoans' = [chainLoans EXCEPT ![LoanId].status = "Liquidated"]
            /\ UNCHANGED balance
            /\ Executed("liquidate", sender, 0)
            /\ OffChainUnchanged

\* AvelonLending.cancelLoan (the borrower or the owner)
chainCancelLoan ==
    \E sender \in Senders :
        /\ sender \in {"borrower", "owner"}
        /\ chainLoans[LoanId].status = "PendingCollateral"
        /\ chainLoans' = [chainLoans EXCEPT ![LoanId].status = "Cancelled"]
        /\ UNCHANGED <<collateralDeposits, isCollateralLocked, balance>>
        /\ Executed("cancelLoan", sender, 0)
        /\ OffChainUnchanged

\* releaseCollateral clearing the amount and leaving the lock set
releaseCollateralKeepingLock ==
    \E sender \in Senders :
        /\ sender = "owner"
        /\ isCollateralLocked[LoanId]
        /\ chainLoans[LoanId].status = "Repaid"
        /\ collateralDeposits[LoanId] <= balance
        /\ collateralDeposits' = [collateralDeposits EXCEPT ![LoanId] = 0]
        /\ balance' = balance - collateralDeposits[LoanId]
        /\ UNCHANGED <<chainLoans, isCollateralLocked>>
        /\ Executed("releaseCollateral", sender, 0)
        /\ OffChainUnchanged

\* CollateralManager.releaseCollateral (onlyOwner): the mappings are cleared
\* and the amount is sent to the borrower; the transfer fails, and the call
\* reverts, if the contract holds less than the amount
releaseCollateral ==
    \E sender \in Senders :
        /\ sender = "owner"
        /\ isCollateralLocked[LoanId]
        /\ chainLoans[LoanId].status = "Repaid"
        /\ collateralDeposits[LoanId] <= balance
        /\ collateralDeposits' = [collateralDeposits EXCEPT ![LoanId] = 0]
        /\ isCollateralLocked' = [isCollateralLocked EXCEPT ![LoanId] = FALSE]
        /\ balance' = balance - collateralDeposits[LoanId]
        /\ UNCHANGED chainLoans
        /\ Executed("releaseCollateral", sender, 0)
        /\ OffChainUnchanged

\* CollateralManager.emergencyWithdraw (onlyOwner): any amount up to the
\* balance leaves the contract
emergencyWithdraw ==
    \E sender \in Senders, amount \in 0..MaxBalance :
        /\ sender = "owner"
        /\ amount <= balance
        /\ balance' = balance - amount
        /\ UNCHANGED <<chainLoans, collateralDeposits, isCollateralLocked>>
        /\ Executed("emergencyWithdraw", sender, amount)
        /\ OffChainUnchanged

\* CollateralManager's receive(): anyone sends ETH to the contract
receive ==
    \E sender \in Senders, value \in 1..MaxValue :
        /\ balance + value <= MaxBalance
        /\ balance' = balance + value
        /\ UNCHANGED <<chainLoans, collateralDeposits, isCollateralLocked>>
        /\ Executed("receive", sender, value)
        /\ OffChainUnchanged

\* the contracts alone: every call of CollateralManager, and of AvelonLending,
\* that moves the loan or the escrowed ETH
NextChain ==
    \/ depositCollateral
    \/ addCollateral
    \/ chainRecordRepayment
    \/ liquidate
    \/ chainCancelLoan
    \/ releaseCollateral
    \/ emergencyWithdraw
    \/ receive

SpecChain == Init /\ [][NextChain]_vars

(* ------------------------- the two ledgers --------------------------- *)

\* the handler that serves the requests when they arrive one at a time
Serial == {1}

\* the database and the contracts side by side: LoanService makes no contract
\* call and reads the chain only through verifyTransaction, so a request
\* handler's steps and the contract calls interleave freely; requests are
\* served one at a time
NextLedgers ==
    \/ \E p \in Serial :
          \/ Start(p)
          \/ Return(p)
          \/ DepositFind(p)
          \/ DepositVerify(p)
          \/ DepositInsertTx(p)
          \/ DepositUpdateLoan(p)
          \/ ActivateFind(p)
          \/ ActivateUpdateLoan(p)
          \/ ActivateUpdateUser(p)
          \/ DepositAudit(p)
          \/ RepayFind(p)
          \/ RepayVerify(p)
          \/ RepayInsertTx(p)
          \/ RepayUpdateLoan(p)
          \/ RepayUpdateUser(p)
          \/ RepayAudit(p)
          \/ CancelFind(p)
          \/ CancelUpdateLoan(p)
          \/ CancelAudit(p)
          \/ LiquidateFind(p)
          \/ LiquidateUpdateLoan(p)
          \/ DbWriteFails(p)
    \/ depositCollateral
    \/ addCollateral
    \/ chainRecordRepayment
    \/ liquidate
    \/ chainCancelLoan
    \/ releaseCollateral

SpecLedgers == Init /\ [][NextLedgers]_vars

(* ------------------------------- claims ------------------------------- *)

LedgerOps == {"deposit", "repay"}

\* no handler is between its first read and its return
Quiescent == \A p \in Procs : pc[p] \in {"idle", "done"}

\* no database write has failed so far
NoDbFailure == dbFailures = 0

\* p takes its step out of `label`, and no database write has failed so far
StepsFrom(p, label) == pc[p] = label /\ pc'[p] # label /\ dbFailures' = 0

AtMostOneSucceedsPerTxHash ==
    \A p, q \in Procs :
        (/\ p # q
         /\ pc[p] = "done" /\ pc[q] = "done"
         /\ call[p].op \in LedgerOps /\ call[q].op \in LedgerOps
         /\ call[p].txHash = call[q].txHash)
        => ~(result[p] = "ok" /\ result[q] = "ok")

DuplicateInsertIsConflictError ==
    \A p \in Procs :
        (/\ \/ StepsFrom(p, "d_insertTx")
            \/ StepsFrom(p, "r_insertTx")
         /\ TxHashRecorded(call[p].txHash))
        => /\ pc'[p] = "done"
           /\ result'[p] = "ConflictError"
           /\ loans' = loans
           /\ txLog' = txLog

\* C1: of the recordCollateralDeposit / recordRepayment calls carrying one
\* txHash at most one succeeds, and a call whose txHash is already recorded is
\* rejected with ConflictError, the loan and the log staying as they were.
C1_TxHashIdempotent ==
    /\ []AtMostOneSucceedsPerTxHash
    /\ [][DuplicateInsertIsConflictError]_vars

\* C2: a ledger-mutating call that ends in an error (a failed insert, loan
\* update, statistics update or audit write) has left none of its writes in
\* the database.
C2_AllOrNothing ==
    \A p \in Procs :
        (pc[p] = "done" /\ result[p] # "ok") => writes[p] = {}

\* the owed buckets fixed at creation (principal) and activation (interest)
OwedAtActivation ==
    [principalOwed |-> Principal, interestOwed |-> InterestAtActivation, feesOwed |-> 0]

\* the buckets after replaying the first k LoanTransaction rows of loan id
RECURSIVE Replay(_, _)
Replay(k, id) ==
    IF k = 0
    THEN OwedAtActivation
    ELSE IF txLog[k].loanId = id /\ txLog[k].type = "REPAYMENT"
         THEN Allocate(txLog[k].amount, Replay(k - 1, id))
         ELSE Replay(k - 1, id)

Buckets(row) ==
    [principalOwed |-> row.principalOwed, interestOwed |-> row.interestOwed,
     feesOwed |-> row.feesOwed]

\* C3: fold invariant: whenever no call is in flight (also after a failed
\* one), replaying an activated loan's LoanTransaction rows in order from the
\* amounts owed at activation gives the loan's current three buckets.
C3_FoldInvariant ==
    Quiescent =>
        \A id \in DOMAIN loans :
            loans[id].status \in {"ACTIVE", "REPAID", "LIQUIDATED"}
            => Buckets(loans[id]) = Replay(Len(txLog), id)

\* C4: two recordRepayment calls with distinct txHashes that read the same
\* Active loan and both succeed (no database write having failed) leave total
\* owed = the total they read minus both amounts, and their amounts together
\* do not exceed the total they read.
C4_ConcurrentRepaymentsSerialize ==
    \A p, q \in Procs :
        (/\ p # q
         /\ NoDbFailure
         /\ pc[p] = "done" /\ pc[q] = "done"
         /\ call[p].op = "repay" /\ call[q].op = "repay"
         /\ result[p] = "ok" /\ result[q] = "ok"
         /\ call[p].loanId = call[q].loanId
         /\ call[p].txHash # call[q].txHash
         /\ snap[p] = snap[q])
        => /\ call[p].amount + call[q].amount <= TotalOwed(snap[p])
           /\ TotalOwed(loans[call[p].loanId])
                = TotalOwed(snap[p]) - call[p].amount - call[q].amount

LegalEdges ==
    {<<"PENDING_COLLATERAL", "COLLATERAL_DEPOSITED">>,
     <<"PENDING_COLLATERAL", "CANCELLED">>,
     <<"COLLATERAL_DEPOSITED", "ACTIVE">>,
     <<"ACTIVE", "REPAID">>,
     <<"ACTIVE", "LIQUIDATED">>,
     <<"ACTIVE", "EXPIRED">>}

StatusMovesAlongLegalEdge ==
    \A id \in DOMAIN loans :
        (loans'[id].status # loans[id].status /\ dbFailures' = 0)
        => <<loans[id].status, loans'[id].status>> \in LegalEdges

\* C5: every change of the loan's status (in a run where no database write
\* fails) is an edge of the legal graph, so a terminal status (Repaid,
\* Liquidated, Cancelled, Expired) is never left.
C5_LegalTransitionsOnly == [][StatusMovesAlongLegalEdge]_vars

\* C6: in every state (of a run where no database write failed) a Repaid
\* loan owes 0 in total and an Active loan owes more than 0.
C6_RepaidIffNothingOwed ==
    NoDbFailure =>
        \A id \in DOMAIN loans :
            /\ loans[id].status = "REPAID" => TotalOwed(loans[id]) = 0
            /\ loans[id].status = "ACTIVE" => TotalOwed(loans[id]) > 0

NonNegativeBuckets ==
    \A id \in DOMAIN loans :
        /\ loans[id].principalOwed >= 0
        /\ loans[id].interestOwed >= 0
        /\ loans[id].feesOwed >= 0

RepaymentTakesAtMostItsAmount ==
    \A p \in Procs :
        StepsFrom(p, "r_updateLoan")
        => LET id == call[p].loanId
           IN  /\ loans'[id].principalOwed >= 0
               /\ loans'[id].interestOwed >= 0
               /\ loans'[id].feesOwed >= 0
               /\ TotalOwed(loans[id]) - TotalOwed(loans'[id]) <= call[p].amount

\* C7: every bucket of every loan is >= 0 in every state, and the loan update
\* of a repayment lowers no bucket below 0 and lowers the stored buckets by no
\* more than the payment amount.
C7_BucketsNonNegative ==
    /\ []NonNegativeBuckets
    /\ [][RepaymentTakesAtMostItsAmount]_vars

RepaymentOverCurrentOwedRejected ==
    \A p \in Procs :
        (/\ StepsFrom(p, "r_verify")
         /\ loans[call[p].loanId].status = "ACTIVE"
         /\ ~TxHashRecorded(call[p].txHash)
         /\ call[p].amount > TotalOwed(loans[call[p].loanId]))
        => /\ pc'[p] = "done"
           /\ result'[p] = "ValidationError"
           /\ loans' = loans
           /\ txLog' = txLog

\* C9: a recordRepayment (on a loan that is Active, with a txHash not yet
\* recorded) whose amount exceeds what the loan currently owes is rejected
\* with ValidationError at its amount check; nothing is recorded and the loan
\* is unchanged.
C9_OverpaymentRejected == [][RepaymentOverCurrentOwedRejected]_vars

\* the off-chain ratio is the number the contract returns
SameRatio(off, on) ==
    /\ ~off.isNull
    /\ ~on.isMax
    /\ off.num = on.value * off.den

\* C10: for every (collateralDeposited, owed buckets) the ratio the service
\* computes equals the basis-point value of CollateralManager.getCollateralRatio
\* (0 without collateral, the maximum integer when nothing is owed).
C10_RatioParity ==
    fnOut.kind = "ratio" => SameRatio(fnOut.offChain, fnOut.onChain)

\* Spec reaches the ledger SpecActive starts from
ReachesActiveLedger ==
    /\ loans = [l \in {LoanId} |-> ActivatedRow(DepositedRow(NewLoan, DepositValue(1)))]
    /\ Len(txLog) = 1 /\ txLog[1].txHash = 1
    /\ userStats = [activeLoansCount |-> 1, completedLoansCount |-> 0]
    /\ auditCount = 1
    /\ applied = {1}
    /\ activations = [l \in {LoanId} |-> 1]
    /\ \A p \in Procs : pc[p] = "idle"

(* ------------------------------ C11 - C20 ----------------------------- *)

\* collateral / owed, in basis points, is below minCollateralRatio
BelowMinRatio(collateral, owed) == collateral * 10000 < minCollateralRatio * owed

LiquidatedOnlyWhenUndercollateralised ==
    \A id \in DOMAIN loans :
        /\ (loans'[id].status = "LIQUIDATED" /\ loans[id].status # "LIQUIDATED"
                /\ dbFailures' = 0)
           => /\ loans[id].status = "ACTIVE"
              /\ BelowMinRatio(loans[id].collateralDeposited, TotalOwed(loans[id]))
        /\ (chainLoans'[id].status = "Liquidated" /\ chainLoans[id].status # "Liquidated")
           => /\ chainLoans[id].status = "Active"
              /\ BelowMinRatio(collateralDeposits[id],
                               chainLoans[id].principalOwed + chainLoans[id].interestOwed)

\* C11: a loan's status becomes Liquidated only from Active and only when its
\* collateral ratio is below minCollateralRatio at that moment, on the admin
\* liquidation route as in CollateralManager.liquidate.
C11_LiquidationNeedsLowRatio == [][LiquidatedOnlyWhenUndercollateralised]_vars

ActivatedWithFullCollateral ==
    \A id \in DOMAIN loans :
        /\ loans[id].status = "ACTIVE" => loans[id].collateralDeposited >= CollateralRequired
        /\ chainLoans[id].status = "Active" => collateralDeposits[id] >= CollateralRequired

ActivationNeedsFullCollateral ==
    /\ \A id \in DOMAIN loans :
          /\ (loans'[id].status = "ACTIVE" /\ loans[id].status # "ACTIVE")
             => /\ loans'[id].collateralDeposited >= CollateralRequired
                /\ \E p \in Procs : /\ call[p].op = "deposit" /\ call[p].loanId = id
                                     /\ pc[p] = "a_updateLoan" /\ pc'[p] = "a_updateUser"
          /\ (chainLoans'[id].status = "Active" /\ chainLoans[id].status # "Active")
             => /\ collateralDeposits'[id] >= CollateralRequired
                /\ lastTx'.fn = "depositCollateral"
    /\ \A p \in Procs :
          (/\ pc[p] = "d_updateLoan" /\ pc'[p] \notin {"d_updateLoan", "done"}
           /\ loans'[call[p].loanId].collateralDeposited < CollateralRequired)
          => /\ pc'[p] = "d_audit"
             /\ loans'[call[p].loanId].status # "ACTIVE"

\* C12: a loan becomes Active only in a recordCollateralDeposit call (on-chain:
\* in depositCollateral) and only with collateralDeposited >= collateralRequired;
\* a deposit that leaves less than collateralRequired goes on without
\* activating; an Active loan holds at least collateralRequired.
C12_ActivationNeedsFullCollateral ==
    /\ []ActivatedWithFullCollateral
    /\ [][ActivationNeedsFullCollateral]_vars

\* both ledgers have activated the loan
C12_BothLedgersActive ==
    /\ loans[LoanId].status = "ACTIVE"
    /\ chainLoans[LoanId].status = "Active"
    /\ \A p \in Procs : pc[p] = "idle"

CollateralCreditedOnlyFromBorrower ==
    \A id \in DOMAIN loans :
        /\ loans'[id].collateralDeposited > loans[id].collateralDeposited
           => \E p \in Procs :
                 /\ pc[p] = "d_updateLoan" /\ pc'[p] # "d_updateLoan"
                 /\ call[p].loanId = id
                 /\ VerifyTransaction(call[p].txHash, "receipt").from = "borrower"
        /\ collateralDeposits'[id] > collateralDeposits[id]
           => /\ lastTx'.fn \in {"depositCollateral", "addCollateral"}
              /\ lastTx'.sender = "borrower"

\* C13: collateralDeposited of a loan increases only in a recordCollateralDeposit
\* whose verified transaction was sent by the loan's wallet, and
\* CollateralManager's collateralDeposits increases only by a call of the
\* loan's borrower.
C13_CollateralOnlyFromBorrower == [][CollateralCreditedOnlyFromBorrower]_vars

\* the only way out of a deposit's verify step into an error is valid = false;
\* out of a repayment's it is valid = false or the amount check
UnconfirmedIsBlockchainError ==
    \A p \in Procs :
        (/\ pc'[p] = "done"
         /\ \/ pc[p] = "d_verify"
            \/ pc[p] = "r_verify" /\ ~ExceedsOwed(call[p].amount, snap[p]))
        => /\ result'[p] = "BlockchainError"
           /\ db' = db

\* C14: when verifyTransaction returns valid = false, recordCollateralDeposit
\* and recordRepayment end with BlockchainError, with no LoanTransaction
\* recorded and the loan unchanged.
C14_UnconfirmedIsBlockchainError == [][UnconfirmedIsBlockchainError]_vars

\* the status each ledger operation requires
RequiredStatus(op) == IF op = "repay" THEN "ACTIVE" ELSE "PENDING_COLLATERAL"

WrongStateIsInvalidStateError ==
    \A p \in Procs :
        (/\ pc[p] = "find" /\ pc'[p] # "find"
         /\ call[p].op \in {"deposit", "repay", "cancel"}
         /\ call[p].loanId \in DOMAIN loans
         /\ loans[call[p].loanId].status # RequiredStatus(call[p].op))
        => /\ pc'[p] = "done"
           /\ result'[p] = "InvalidStateError"
           /\ db' = db

\* C16: recordRepayment on a loan that is not Active, recordCollateralDeposit
\* on a loan that is not PendingCollateral and cancelLoan on a loan that is
\* not PendingCollateral end with InvalidStateError before the verifier is
\* called, with no LoanTransaction recorded and the loan unchanged.
C16_WrongStateIsInvalidStateError == [][WrongStateIsInvalidStateError]_vars

\* no other handler is in flight with p's txHash
OnlyCallWithItsTxHash(p) ==
    \A q \in Procs \ {p} : call[q].txHash # call[p].txHash

ResubmissionRejectedOnlyOnceApplied ==
    \A p \in Procs :
        (/\ pc[p] \in {"d_insertTx", "r_insertTx"}
         /\ pc'[p] = "done"
         /\ dbFailures' = dbFailures
         /\ OnlyCallWithItsTxHash(p))
        => call[p].txHash \in applied

\* C15: a recordCollateralDeposit / recordRepayment re-submitted with the
\* txHash of a call that failed on a database error is refused as a duplicate
\* only if that transaction's funds have been applied to the loan; until
\* then the re-submission goes through.
C15_ResubmissionRecovers == [][ResubmissionRejectedOnlyOnceApplied]_vars

\* C17: under any interleaving of cancelLoan with recordCollateralDeposit (no
\* database write having failed) a Cancelled loan has collateralDeposited = 0
\* and no recorded LoanTransaction; on-chain a Cancelled loan holds no
\* collateral.
C17_CancelledNeverFunded ==
    NoDbFailure =>
        \A id \in DOMAIN loans :
            /\ loans[id].status = "CANCELLED"
               => /\ loans[id].collateralDeposited = 0
                  /\ \A k \in 1..Len(txLog) : txLog[k].loanId # id
            /\ chainLoans[id].status = "Cancelled" => collateralDeposits[id] = 0

\* the AvelonLending status an off-chain status stands for
ChainStatusOf(status) ==
    CASE status = "PENDING_COLLATERAL" -> "PendingCollateral"
      [] status = "COLLATERAL_DEPOSITED" -> "PendingCollateral"
      [] status = "ACTIVE" -> "Active"
      [] status = "REPAID" -> "Repaid"
      [] status = "LIQUIDATED" -> "Liquidated"
      [] status = "CANCELLED" -> "Cancelled"

\* neither ledger accepts a further operation on the loan
BothLedgersFinal(id) ==
    /\ loans[id].status \in {"REPAID", "LIQUIDATED", "CANCELLED"}
    /\ chainLoans[id].status \in {"Repaid", "Liquidated", "Cancelled"}

\* C18: the two ledgers converge: once every operation has completed, none is
\* in flight and no database write has failed, a loan that is final in both
\* ledgers (so that nothing more can be reflected) has corresponding statuses
\* and an off-chain owed amount equal to AvelonLending.getTotalOwed.
C18_LedgersConverge ==
    (Quiescent /\ NoDbFailure) =>
        \A id \in DOMAIN loans :
            BothLedgersFinal(id) =>
                /\ chainLoans[id].status = ChainStatusOf(loans[id].status)
                /\ TotalOwed(loans[id])
                     = chainLoans[id].principalOwed + chainLoans[id].interestOwed

\* C19: for the same principalOwed, interestOwed (feesOwed = 0) and payment
\* amount, amount = 0 included, the off-chain and the on-chain recordRepayment
\* accept or reject alike and, when they accept, leave the same principalOwed
\* and interestOwed and decide alike whether the loan is Repaid.
C19_RepaymentParity ==
    (fnOut.kind = "repay" /\ fnIn.fees = 0) =>
        /\ fnOut.offAccepted = fnOut.onAccepted
        /\ fnOut.offAccepted =>
              /\ fnOut.offNew.principalOwed = fnOut.onNew.principalOwed
              /\ fnOut.offNew.interestOwed = fnOut.onNew.interestOwed
              /\ fnOut.offRepaid = (fnOut.onNew.status = "Repaid")

\* C20: the interest LoanService.activateLoan stores is a whole number of money
\* units and equals the floor value AvelonLending.activateLoan computes for the
\* same principal, rate and duration.
C20_InterestParity ==
    fnOut.kind = "interest" => DecEquals(fnOut.offChain, fnOut.onChain)

(* ------------------------------ C21 - C30 ----------------------------- *)

ActivatedAtMostOnce ==
    NoDbFailure => \A id \in DOMAIN loans : activations[id] <= 1

InterestOnlyDecreasesOnceActivated ==
    \A id \in DOMAIN loans :
        (activations[id] >= 1 /\ dbFailures' = 0)
        => loans'[id].interestOwed <= loans[id].interestOwed

\* C21: a loan is activated at most once, and once it is activated no
\* operation raises its interestOwed (the activation's terms are not applied
\* again).
C21_ActivatedOnceTermsFrozen ==
    []ActivatedAtMostOnce /\ [][InterestOnlyDecreasesOnceActivated]_vars

\* a recordCollateralDeposit call for a not yet recorded transaction of
\* positive value on an ACTIVE loan is not refused at the status check
OffChainTopUpAccepted ==
    \A p \in Procs :
        (/\ StepsFrom(p, "find")
         /\ call[p].op = "deposit"
         /\ call[p].loanId \in DOMAIN loans
         /\ loans[call[p].loanId].status = "ACTIVE"
         /\ DepositValue(call[p].txHash) > 0
         /\ ~TxHashRecorded(call[p].txHash))
        => pc'[p] = "d_verify"

\* an executed addCollateral adds msg.value and leaves the loan as it was
OnChainTopUpAdds ==
    (lastTx'.fn = "addCollateral" /\ collateralDeposits' # collateralDeposits)
    => /\ collateralDeposits'[LoanId] = collateralDeposits[LoanId] + lastTx'.value
       /\ chainLoans' = chainLoans

\* C22: a collateral deposit of a verified positive amount on an Active loan
\* is accepted and adds exactly that amount, off-chain (add-collateral) as in
\* CollateralManager.addCollateral, leaving status and owed buckets unchanged.
C22_TopUpOnActiveLoan ==
    [][OffChainTopUpAccepted /\ OnChainTopUpAdds]_vars

\* a deposit whose confirmed transaction carries no value ends in AmountError
\* at the verification step, with the loan and the transactions untouched
ZeroDepositIsAmountError ==
    \A p \in Procs :
        (/\ StepsFrom(p, "d_verify")
         /\ DepositValue(call[p].txHash) <= 0
         /\ result'[p] # "ValidationError")
        => /\ result'[p] = "AmountError"
           /\ UNCHANGED <<loans, txLog>>

\* no COLLATERAL_DEPOSIT of amount 0 is ever recorded
NoZeroDepositRecorded ==
    \A k \in 1..Len(txLog) :
        txLog[k].type = "COLLATERAL_DEPOSIT" => txLog[k].amount > 0

\* C23: a collateral deposit whose verified amount is <= 0 is rejected with
\* AmountError; no LoanTransaction is recorded and the loan is unchanged.
C23_ZeroDepositRejected ==
    []NoZeroDepositRecorded /\ [][ZeroDepositIsAmountError]_vars

\* C24: isAtRisk returns liquidatable = (ratio < minCollateralRatio) and
\* warning = (minCollateralRatio <= ratio < warningCollateralRatio) for the
\* loan's basis-point ratio, and never both.
C24_IsAtRiskBands ==
    fnOut.kind = "atRisk" =>
        LET r == fnOut.ratio
            below(t) == ~r.isMax /\ r.value < t
        IN  /\ fnOut.flags.liquidatable = below(fnIn.ratios.min)
            /\ fnOut.flags.warning = (~below(fnIn.ratios.min) /\ below(fnIn.ratios.warning))
            /\ ~(fnOut.flags.warning /\ fnOut.flags.liquidatable)

\* collateral 5 against total owed 4 (1.5 ETH against 1.2 ETH) under 12000 and
\* 13000: ratio 12500, warning and not liquidatable
C24_WarningBand ==
    /\ fnOut.kind = "atRisk"
    /\ fnIn.collateral = 5 /\ fnIn.principal + fnIn.interest = 4
    /\ fnIn.ratios = [min |-> 12000, warning |-> 13000]
    /\ fnOut.ratio = [isMax |-> FALSE, value |-> 12500]
    /\ fnOut.flags = [warning |-> TRUE, liquidatable |-> FALSE]

\* C25: after liquidation the loan is Liquidated and its recorded collateral is
\* 0, in the off-chain ledger as in CollateralManager.
C25_LiquidatedHoldsNoCollateral ==
    NoDbFailure =>
        \A id \in DOMAIN loans :
            /\ loans[id].status = "LIQUIDATED" => loans[id].collateralDeposited = 0
            /\ chainLoans[id].status = "Liquidated" => collateralDeposits[id] = 0

LoansWithStatus(status) == {id \in DOMAIN loans : loans[id].status = status}

\* C26: whenever no operation is in flight (and no database write has failed)
\* the borrower's activeLoansCount is the number of Active loans and
\* completedLoansCount the number of Repaid loans.
C26_StatisticsMatchLoans ==
    (Quiescent /\ NoDbFailure) =>
        /\ userStats.activeLoansCount = Cardinality(LoansWithStatus("ACTIVE"))
        /\ userStats.completedLoansCount = Cardinality(LoansWithStatus("REPAID"))

\* a change of the AvelonLending status is one of the four edges, made by the
\* call and the caller that edge belongs to (activateLoan and liquidateLoan
\* run inside CollateralManager.depositCollateral and liquidate)
ChainStatusMovesAlongItsEdge ==
    \A id \in DOMAIN chainLoans :
        chainLoans'[id].status # chainLoans[id].status =>
            LET from == chainLoans[id].status
                to == chainLoans'[id].status
                tx == lastTx'
            IN  \/ /\ from = "PendingCollateral" /\ to = "Active"
                   /\ tx.fn = "depositCollateral"
                \/ /\ from = "PendingCollateral" /\ to = "Cancelled"
                   /\ tx.fn = "cancelLoan" /\ tx.sender \in {"borrower", "owner"}
                \/ /\ from = "Active" /\ to = "Repaid"
                   /\ tx.fn = "recordRepayment" /\ tx.sender = "owner"
                   /\ chainLoans'[id].principalOwed + chainLoans'[id].interestOwed = 0
                \/ /\ from = "Active" /\ to = "Liquidated"
                   /\ tx.fn = "liquidate"

\* C27: in AvelonLending a loan's status changes only along
\* PendingCollateral -> Active (activateLoan from the CollateralManager),
\* PendingCollateral -> Cancelled (cancelLoan by the borrower or the owner),
\* Active -> Repaid (recordRepayment by the owner bringing the owed total to 0)
\* and Active -> Liquidated (liquidateLoan from the CollateralManager); Repaid,
\* Liquidated and Cancelled are never left.
C27_ChainStatusEdges == [][ChainStatusMovesAlongItsEdge]_vars

\* the owner's recordRepayment has closed the loan
C27_RepaidByOwner ==
    /\ chainLoans[LoanId].status = "Repaid"
    /\ lastTx.fn = "recordRepayment" /\ lastTx.sender = "owner"
    /\ chainLoans[LoanId].principalOwed + chainLoans[LoanId].interestOwed = 0

\* the loan has received less than collateralRequired and is not activated
Underfunded(id) ==
    /\ loans[id].status = "COLLATERAL_DEPOSITED"
    /\ loans[id].collateralDeposited < CollateralRequired

\* a further deposit (a transaction not recorded before, of positive value) on
\* an underfunded loan is not refused at the status check
UnderfundedLoanAcceptsDeposit ==
    \A p \in Procs :
        (/\ StepsFrom(p, "find")
         /\ call[p].op = "deposit"
         /\ call[p].loanId \in DOMAIN loans
         /\ Underfunded(call[p].loanId)
         /\ Quiescent'
         /\ DepositValue(call[p].txHash) > 0
         /\ ~TxHashRecorded(call[p].txHash))
        => pc'[p] = "d_verify"

\* C28: no loan gets stuck: a loan that received a deposit smaller than
\* collateralRequired still accepts further deposits (until it can become
\* Active).
C28_UnderfundedNotStuck == [][UnderfundedLoanAcceptsDeposit]_vars

\* an underfunded loan with no handler in flight stays underfunded for ever
UnderfundedStaysForever ==
    []((Underfunded(LoanId) /\ Quiescent) => []Underfunded(LoanId))

C30_EscrowSolvent ==
    balance >= collateralDeposits[LoanId]

====
